---- MODULE Spec2Model ----
(***************************************************************************)
(* Model of script/02下载jdks.py: main() iterates JDK_VERSIONS and calls   *)
(* download_jdk(version), which creates the directory jdk{version}, asks   *)
(* the Adoptium "latest binary" endpoint for the release, skips the        *)
(* download when the resolved file is already in the directory, and        *)
(* otherwise streams the body to the file chunk by chunk.                  *)
(*                                                                         *)
(* The environment (HTTP service, network, filesystem errors) is chosen    *)
(* nondeterministically at every step where the code talks to it.          *)
(*                                                                         *)
(* Three specifications share the actions of download_jdk:                 *)
(*   Spec      one process running main(), any number of times;            *)
(*   SpecCalls a caller invoking download_jdk(v) up to MaxCalls times in   *)
(*             succession for one version v, recording what it observed;   *)
(*   SpecConc  two instances of the program, started in the same working   *)
(*             directory, each inside download_jdk(v) at the same time.    *)
(***************************************************************************)
EXTENDS Integers, Sequences, FiniteSets

\* ------------------------------------------------------------------ bounds

\* JDK_VERSIONS = range(8, 22): the first version is the program's; the
\* number of versions (14 in the source) is cut down to keep the filesystem
\* state space finite and small.
FirstVersion == 8
NumVersions == 2
\* Largest body / content-length, in bytes.
MaxLen == 2
\* iter_content(chunk_size=8192), scaled to the model's body lengths.
chunk_size == 2
\* Number of download_jdk calls the callers of SpecCalls / SpecConc make.
MaxCalls == 2

\* ------------------------------------------------------------- constants

JDK_VERSIONS == FirstVersion .. (FirstVersion + NumVersions - 1)

\* The two processes (program instances). Spec and SpecCalls only run 1.
Procs == {1, 2}

\* File names the service may resolve a version to (last segment of the
\* final URL): the release that is "latest" may change between calls.
Names == {"jdk_a.tar.gz", "jdk_b.tar.gz"}

\* HTTP statuses of the final response.
Statuses == {200, 403, 404, 500}

\* A file that does not exist / a header that is not there.
Absent == -1
NoHeader == -1

\* content-length header values: absent, or any declared length.
ContentLengths == {NoHeader} \cup (0 .. MaxLen)

\* The five outcomes (the five groups of messages of download_jdk).
Outcomes == {"Downloaded", "AlreadyPresent", "NotFound", "NetworkError", "UnknownError"}

\* No response received (yet).
NoResp == [status |-> 0, name |-> "", clen |-> NoHeader, body |-> 0]

Min(a, b) == IF a < b THEN a ELSE b
Max(a, b) == IF a > b THEN a ELSE b

\* ------------------------------------------------------------------ state

VARIABLES
  dirs,        \* the directories that exist in the working directory
  files,       \* files[<<dir, name>>]: byte length of the file, or Absent
  pc,          \* pc[p]: where process p is
  ver,         \* ver[p]: the loop variable / the argument of download_jdk
  resp,        \* resp[p]: the response r of the current call
  exc,         \* exc[p]: the exception raised in the current call, or "none"
  written,     \* written[p]: offset of p's open file object
  nreq,        \* nreq[p]: requests.get calls made by the current call
  outcome,     \* outcome[p]: outcome of the call that just returned
  called,      \* called[p]: versions main() has called download_jdk for, this run
  banner,      \* banner[p]: the completion banner of this run was printed
  ncalls,      \* calls started by the callers of SpecCalls / SpecConc
  prev,        \* SpecCalls: what the caller saw of the previous call
  namesSeen,   \* SpecCalls: file names the service resolved the version to
  partial,     \* SpecCalls: partial[n]: resource length of a file left short
  filesBefore  \* SpecCalls: snapshot of files taken when the call started

vars == <<dirs, files, pc, ver, resp, exc, written, nreq, outcome, called,
          banner, ncalls, prev, namesSeen, partial, filesBefore>>

fsVars == <<dirs, files>>
callVars == <<resp, exc, written, nreq, outcome>>
mainVars == <<called, banner>>
testVars == <<ncalls, prev, namesSeen, partial, filesBefore>>

\* ------------------------------------------------------- pure operators

\* version_dir = Path(f"jdk{version}")
version_dir(version) == <<"jdk", version>>

DirNames == {version_dir(v) : v \in JDK_VERSIONS}

Paths == DirNames \X Names

\* Faulty variant: the file is stored under a fixed name, not the resolved one.
destination_path_fixed(d, filename) == <<d, "jdk_a.tar.gz">>

\* destination_path = version_dir / filename
destination_path(d, filename) == <<d, filename>>

\* Faulty variant: only server errors raise; a 404 page is taken for the release.
RaisesOnly5xx(status) == status >= 500 /\ status < 600

\* r.raise_for_status(): HTTPError for 4xx and 5xx.
RaisesHTTPError(status) == status >= 400 /\ status < 600

\* Faulty variant: no existence test, every call downloads.
ExistsNever(path) == FALSE

\* Faulty variant: an empty file counts as missing and is downloaded again.
ExistsNonEmpty(path) == files[path] > 0

\* destination_path.exists()
Exists(path) == files[path] # Absent

\* Faulty variant: the "except RequestException" clause is missing.
HandleNoRequestException(e, status) ==
  IF e = "HTTPError"
    THEN IF status = 404 THEN "NotFound" ELSE "NetworkError"
    ELSE "UnknownError"

\* The except clauses of download_jdk, in order: HTTPError (404 or not),
\* RequestException, Exception.
Handle(e, status) ==
  IF e = "HTTPError"
    THEN IF status = 404 THEN "NotFound" ELSE "NetworkError"
    ELSE IF e = "RequestException" THEN "NetworkError" ELSE "UnknownError"

\* Faulty variant: the directory is not created.
MkdirNoop(d) == dirs

\* version_dir.mkdir(parents=True, exist_ok=True), when it succeeds.
MkdirOk(d) == dirs \cup {d}

\* Faulty variant: every chunk is written at the start of the file.
WriteChunkAtStart(len, off, k) == k

\* f.write(chunk) of k bytes at offset off of a file of length len.
WriteChunk(len, off, k) == Max(len, off + k)

\* The path the current call of p is about.
Dir(p) == version_dir(ver[p])
Dest(p) == destination_path(Dir(p), resp[p].name)

\* The names of the files in directory d.
FilesIn(d) == {n \in Names : files[<<d, n>>] # Absent}

\* The locals of download_jdk, as they are outside a call.
ResetCall(p) ==
  /\ resp' = [resp EXCEPT ![p] = NoResp]
  /\ exc' = [exc EXCEPT ![p] = "none"]
  /\ written' = [written EXCEPT ![p] = 0]
  /\ nreq' = [nreq EXCEPT ![p] = 0]
  /\ outcome' = [outcome EXCEPT ![p] = "none"]

\* An exception e raised inside the try block: the matching except clause
\* prints its message and download_jdk returns.
Caught(p, e, status) ==
  /\ exc' = [exc EXCEPT ![p] = e]
  /\ outcome' = [outcome EXCEPT ![p] = Handle(e, status)]
  /\ pc' = [pc EXCEPT ![p] = "ret"]

\* ------------------------------------------------------- download_jdk

\* version_dir.mkdir(parents=True, exist_ok=True), before the try block.
\* It cannot fail on a directory that exists; creating one can fail
\* (read-only or unwritable working directory, a regular file named
\* jdk{version}), and the OSError is raised outside any try.
Mkdir(p) ==
  /\ pc[p] = "mkdir"
  /\ \/ /\ dirs' = MkdirOk(Dir(p))
        /\ pc' = [pc EXCEPT ![p] = "request"]
        /\ exc' = exc
     \/ /\ Dir(p) \notin dirs
        /\ dirs' = dirs
        /\ exc' = [exc EXCEPT ![p] = "OSError"]
        /\ pc' = [pc EXCEPT ![p] = "raised"]
  /\ UNCHANGED <<files, ver, resp, written, nreq, outcome, mainVars, testVars>>

\* requests.get(api_url, stream=True, allow_redirects=True, timeout=20) and
\* r.raise_for_status().
Request(p) ==
  /\ pc[p] = "request"
  /\ nreq' = [nreq EXCEPT ![p] = @ + 1]
  /\ \/ \* connection refused, DNS failure, timeout: a RequestException
        /\ resp' = resp
        /\ Caught(p, "RequestException", 0)
     \/ \* an error status: raise_for_status raises HTTPError
        \E s \in Statuses :
          /\ RaisesHTTPError(s)
          /\ resp' = [resp EXCEPT ![p] = [NoResp EXCEPT !.status = s]]
          /\ Caught(p, "HTTPError", s)
     \/ \* a successful response: final URL, headers, body to stream. The
        \* code reads content-length for the progress bar only, so the
        \* declared length is not tied to the number of bytes the stream
        \* delivers (a body cut short, a decoded content-encoding).
        \E s \in Statuses, n \in Names, c \in ContentLengths, b \in 0 .. MaxLen :
          /\ ~RaisesHTTPError(s)
          /\ resp' = [resp EXCEPT ![p] = [status |-> s, name |-> n, clen |-> c, body |-> b]]
          /\ pc' = [pc EXCEPT ![p] = "check"]
          /\ UNCHANGED <<exc, outcome>>
  /\ UNCHANGED <<fsVars, ver, written, mainVars, testVars>>

\* filename, destination_path, and the destination_path.exists() test.
CheckExists(p) ==
  /\ pc[p] = "check"
  /\ IF Exists(Dest(p))
       THEN /\ outcome' = [outcome EXCEPT ![p] = "AlreadyPresent"]
            /\ pc' = [pc EXCEPT ![p] = "ret"]
       ELSE /\ outcome' = outcome
            /\ pc' = [pc EXCEPT ![p] = "open"]
  /\ UNCHANGED <<fsVars, ver, resp, exc, written, nreq, mainVars, testVars>>

\* open(destination_path, 'wb'): creates the file, or truncates the one
\* that is there; an OSError (no space, no permission, no directory) is
\* caught by "except Exception".
OpenDest(p) ==
  /\ pc[p] = "open"
  /\ \/ /\ Dir(p) \in dirs
        /\ files' = [files EXCEPT ![Dest(p)] = 0]
        /\ written' = [written EXCEPT ![p] = 0]
        /\ pc' = [pc EXCEPT ![p] = "stream"]
        /\ UNCHANGED <<exc, outcome>>
     \/ /\ files' = files
        /\ written' = written
        /\ Caught(p, "OSError", resp[p].status)
  /\ UNCHANGED <<dirs, ver, resp, nreq, mainVars, testVars>>

\* One iteration of "for chunk in r.iter_content(chunk_size)": f.write.
StreamChunk(p) ==
  /\ pc[p] = "stream"
  /\ written[p] < resp[p].body
  /\ \E k \in 1 .. Min(chunk_size, resp[p].body - written[p]) :
       /\ files' = [files EXCEPT ![Dest(p)] = WriteChunk(@, written[p], k)]
       /\ written' = [written EXCEPT ![p] = @ + k]
  /\ UNCHANGED <<dirs, pc, ver, resp, exc, nreq, outcome, mainVars, testVars>>

\* The loop fails: the connection breaks (a RequestException raised by
\* iter_content) or the disk write fails (an OSError). The with block
\* closes the file and leaves it where it is.
StreamFail(p) ==
  /\ pc[p] = "stream"
  /\ \E e \in {"RequestException", "OSError"} : Caught(p, e, resp[p].status)
  /\ UNCHANGED <<fsVars, ver, resp, written, nreq, mainVars, testVars>>

\* The body is exhausted: "下载完成".
StreamEnd(p) ==
  /\ pc[p] = "stream"
  /\ written[p] = resp[p].body
  /\ outcome' = [outcome EXCEPT ![p] = "Downloaded"]
  /\ pc' = [pc EXCEPT ![p] = "ret"]
  /\ UNCHANGED <<fsVars, ver, resp, exc, written, nreq, mainVars, testVars>>

download_jdk(p) ==
  \/ Mkdir(p)
  \/ Request(p)
  \/ CheckExists(p)
  \/ OpenDest(p)
  \/ StreamChunk(p)
  \/ StreamFail(p)
  \/ StreamEnd(p)

\* --------------------------------------------------------------- main

\* The program is started: the banners, then the for loop.
MainStart(p) ==
  /\ pc[p] \in {"idle", "done", "aborted"}
  /\ pc' = [pc EXCEPT ![p] = "loop"]
  /\ ver' = [ver EXCEPT ![p] = FirstVersion]
  /\ called' = [called EXCEPT ![p] = <<>>]
  /\ banner' = [banner EXCEPT ![p] = FALSE]
  /\ ResetCall(p)
  /\ UNCHANGED <<fsVars, testVars>>

\* for version in JDK_VERSIONS: download_jdk(version)
MainCall(p) ==
  /\ pc[p] = "loop"
  /\ ver[p] \in JDK_VERSIONS
  /\ called' = [called EXCEPT ![p] = Append(@, ver[p])]
  /\ pc' = [pc EXCEPT ![p] = "mkdir"]
  /\ UNCHANGED <<fsVars, ver, callVars, banner, testVars>>

\* download_jdk returned: next version.
MainNext(p) ==
  /\ pc[p] = "ret"
  /\ pc' = [pc EXCEPT ![p] = "loop"]
  /\ ver' = [ver EXCEPT ![p] = @ + 1]
  /\ ResetCall(p)
  /\ UNCHANGED <<fsVars, mainVars, testVars>>

\* The loop is over: the completion banner.
MainFinish(p) ==
  /\ pc[p] = "loop"
  /\ ver[p] \notin JDK_VERSIONS
  /\ banner' = [banner EXCEPT ![p] = TRUE]
  /\ pc' = [pc EXCEPT ![p] = "done"]
  /\ UNCHANGED <<fsVars, ver, callVars, called, testVars>>

\* An exception left download_jdk: main() has no handler, the program dies
\* with a traceback.
MainAbort(p) ==
  /\ pc[p] = "raised"
  /\ pc' = [pc EXCEPT ![p] = "aborted"]
  /\ UNCHANGED <<fsVars, ver, callVars, mainVars, testVars>>

main(p) ==
  \/ MainStart(p)
  \/ MainCall(p)
  \/ MainNext(p)
  \/ MainFinish(p)
  \/ MainAbort(p)

\* ------------------------------------------------------------ callers

\* What the caller of SpecCalls remembers of a call.
NoPrev == [outcome |-> "none", name |-> "", len |-> Absent]

\* The call left a file shorter than the resource it was streaming.
LeftShort(p) ==
  /\ resp[p].status = 200
  /\ exc[p] # "none"
  /\ files[Dest(p)] # Absent
  /\ files[Dest(p)] < resp[p].body

\* SpecCalls: the caller invokes download_jdk(ver[p]).
TestCall(p) ==
  /\ pc[p] = "idle"
  /\ ncalls < MaxCalls
  /\ ncalls' = ncalls + 1
  /\ filesBefore' = files
  /\ pc' = [pc EXCEPT ![p] = "mkdir"]
  /\ UNCHANGED <<fsVars, ver, callVars, mainVars, prev, namesSeen, partial>>

\* SpecCalls: the call is over (returned or raised); the caller notes its
\* outcome, the resolved name and the length of the destination file.
TestReturn(p) ==
  /\ pc[p] \in {"ret", "raised"}
  /\ prev' = [outcome |-> IF pc[p] = "raised" THEN "Raised" ELSE outcome[p],
              name |-> resp[p].name,
              len |-> IF resp[p].status = 200 THEN files[Dest(p)] ELSE Absent]
  /\ namesSeen' = IF resp[p].status = 200 THEN namesSeen \cup {resp[p].name} ELSE namesSeen
  /\ partial' = IF LeftShort(p) THEN [partial EXCEPT ![resp[p].name] = resp[p].body]
                                ELSE partial
  /\ pc' = [pc EXCEPT ![p] = "idle"]
  /\ ResetCall(p)
  /\ UNCHANGED <<fsVars, ver, mainVars, ncalls, filesBefore>>

\* SpecConc: an instance of the program enters download_jdk(ver[p]).
ConcCall(p) ==
  /\ pc[p] = "idle"
  /\ ncalls < MaxCalls
  /\ ncalls' = ncalls + 1
  /\ pc' = [pc EXCEPT ![p] = "mkdir"]
  /\ UNCHANGED <<fsVars, ver, callVars, mainVars, prev, namesSeen, partial, filesBefore>>

\* SpecConc: the call is over.
ConcReturn(p) ==
  /\ pc[p] \in {"ret", "raised"}
  /\ pc' = [pc EXCEPT ![p] = "idle"]
  /\ ResetCall(p)
  /\ UNCHANGED <<fsVars, ver, mainVars, testVars>>

\* ---------------------------------------------------- specifications

InitCommon ==
  /\ dirs = {}
  /\ files = [path \in Paths |-> Absent]
  /\ pc = [p \in Procs |-> "idle"]
  /\ resp = [p \in Procs |-> NoResp]
  /\ exc = [p \in Procs |-> "none"]
  /\ written = [p \in Procs |-> 0]
  /\ nreq = [p \in Procs |-> 0]
  /\ outcome = [p \in Procs |-> "none"]
  /\ called = [p \in Procs |-> <<>>]
  /\ banner = [p \in Procs |-> FALSE]
  /\ ncalls = 0
  /\ prev = NoPrev
  /\ namesSeen = {}
  /\ partial = [n \in Names |-> Absent]
  /\ filesBefore = [path \in Paths |-> Absent]

\* An empty working directory; main() not started.
Init ==
  /\ InitCommon
  /\ ver = [p \in Procs |-> FirstVersion]

Next == main(1) \/ download_jdk(1)

Spec == Init /\ [][Next]_vars

\* An empty working directory; the caller picks the version.
InitCalls ==
  /\ InitCommon
  /\ \E v \in JDK_VERSIONS : ver = [p \in Procs |-> v]

NextCalls == TestCall(1) \/ TestReturn(1) \/ download_jdk(1)

SpecCalls == InitCalls /\ [][NextCalls]_vars

NextConc == \E p \in Procs : ConcCall(p) \/ ConcReturn(p) \/ download_jdk(p)

SpecConc == InitCalls /\ [][NextConc]_vars

\* ------------------------------------------------------------- claims

\* The versions of the configured range, ascending.
AllVersions == [i \in 1 .. NumVersions |-> FirstVersion + i - 1]

IsPrefix(s, t) == Len(s) <= Len(t) /\ \A i \in 1 .. Len(s) : s[i] = t[i]

\* C1 (as claimed): download_jdk always ends with one of the five outcomes
\* and no exception ever leaves it (so main never dies of one).
C1_NeverRaises ==
  \A p \in Procs :
    /\ pc[p] \notin {"raised", "aborted"}
    /\ pc[p] = "ret" => outcome[p] \in Outcomes

\* C2: from an empty directory, a first call that resolves and meets no
\* failure ends Downloaded; a call that follows a Downloaded call and
\* resolves to the same name ends AlreadyPresent, writes nothing, and the
\* destination file has the length it had after the first call.
C2_Idempotent ==
  (pc[1] = "ret" /\ resp[1].status = 200) =>
    /\ (ncalls = 1 /\ exc[1] = "none") => outcome[1] = "Downloaded"
    /\ (prev.outcome = "Downloaded" /\ prev.name = resp[1].name) =>
         /\ outcome[1] = "AlreadyPresent"
         /\ written[1] = 0
         /\ files[Dest(1)] = prev.len
         /\ files = filesBefore

C2_Witness ==
  /\ pc[1] = "ret"
  /\ resp[1].status = 200
  /\ prev.outcome = "Downloaded"
  /\ prev.name = resp[1].name
  /\ prev.len = MaxLen
  /\ outcome[1] = "AlreadyPresent"

\* A process opens path for writing in this step.
Opens(p, path) == pc[p] = "open" /\ pc'[p] = "stream" /\ Dest(p) = path

\* C3 (as claimed): a file that exists is never opened for writing (the
\* open is an exclusive create) and never gets shorter.
C3_NeverOverwritten ==
  [][\A path \in Paths :
       files[path] # Absent =>
         /\ \A p \in Procs : ~Opens(p, path)
         /\ files'[path] >= files[path]]_vars

\* C4: a 404 response ends the call at once with NotFound, and the files
\* are those that were there when the call started.
C4_NotFound ==
  resp[1].status = 404 =>
    /\ pc[1] = "ret"
    /\ outcome[1] = "NotFound"
    /\ files = filesBefore

C4_Witness ==
  /\ pc[1] = "ret"
  /\ resp[1].status = 404
  /\ outcome[1] = "NotFound"
  /\ FilesIn(Dir(1)) # {}

\* C5 (as claimed): a run of main that has ended called download_jdk once
\* for every version, in ascending order, and the banner is printed only
\* after the last call.
C5_EveryVersionOnceInOrder ==
  \A p \in Procs :
    /\ IsPrefix(called[p], AllVersions)
    /\ pc[p] \in {"done", "aborted"} => called[p] = AllVersions
    /\ banner[p] => called[p] = AllVersions

\* C6 (as claimed): every directory jdk{v} holds zero or one file.
C6_AtMostOneFile == \A d \in DirNames : Cardinality(FilesIn(d)) <= 1

\* The names the service has resolved the caller's version to, so far.
Resolved == namesSeen \cup (IF resp[1].status = 200 THEN {resp[1].name} ELSE {})

\* C6 (amended): jdk{v} holds only files named by a name the service
\* resolved v to, one per name: zero or one file while that name does not
\* change. Other directories hold nothing.
C6_OneFilePerResolvedName ==
  \A d \in DirNames :
    /\ FilesIn(d) \subseteq (IF d = Dir(1) THEN Resolved ELSE {})
    /\ Cardinality(Resolved) <= 1 => Cardinality(FilesIn(d)) <= 1

C6_Witness ==
  /\ pc[1] = "idle"
  /\ ncalls = 2
  /\ namesSeen = Names
  /\ Cardinality(FilesIn(Dir(1))) = 2

\* C7 (as claimed): after Downloaded the file length is the declared
\* content-length when there is one, and otherwise the file holds the
\* whole body and is not empty.
C7_LengthAsDeclared ==
  (pc[1] = "ret" /\ outcome[1] = "Downloaded") =>
    /\ resp[1].clen # NoHeader => files[Dest(1)] = resp[1].clen
    /\ resp[1].clen = NoHeader => (files[Dest(1)] = resp[1].body /\ files[Dest(1)] > 0)

\* C7 (amended): after Downloaded the file holds exactly the bytes of the
\* body the stream delivered, whatever the body length and the chunks.
C7_WholeBodyWritten ==
  (pc[1] = "ret" /\ outcome[1] = "Downloaded") =>
    /\ files[Dest(1)] = resp[1].body
    /\ written[1] = resp[1].body

C7_Witness ==
  /\ pc[1] = "ret"
  /\ outcome[1] = "Downloaded"
  /\ resp[1].clen = NoHeader
  /\ resp[1].body = MaxLen
  /\ files[Dest(1)] = MaxLen

\* C8: the directory jdk{v} exists before the request is made and when the
\* call returns, whatever the outcome, and no directory is ever removed.
C8_DirectoryCreated ==
  [][/\ dirs \subseteq dirs'
     /\ nreq'[1] > 0 => version_dir(ver'[1]) \in dirs'
     /\ pc'[1] = "ret" => version_dir(ver'[1]) \in dirs']_vars

C8_Witness ==
  /\ pc[1] = "ret"
  /\ outcome[1] = "NetworkError"
  /\ resp[1].status = 0
  /\ Dir(1) \in dirs
  /\ FilesIn(Dir(1)) = {}

\* C9: an error status other than 404 gives NetworkError; a network
\* failure, at resolution or in the middle of the body, gives NetworkError;
\* UnknownError is given only for other failures; one request per call.
C9_FailureClassification ==
  /\ nreq[1] <= 1
  /\ pc[1] = "ret" =>
       /\ (resp[1].status >= 400 /\ resp[1].status # 404) => outcome[1] = "NetworkError"
       /\ exc[1] = "RequestException" => outcome[1] = "NetworkError"
       /\ outcome[1] = "UnknownError" => exc[1] \notin {"none", "HTTPError", "RequestException"}

C9_Witness ==
  /\ pc[1] = "ret"
  /\ exc[1] = "RequestException"
  /\ resp[1].status = 200
  /\ written[1] > 0
  /\ written[1] < resp[1].body
  /\ outcome[1] = "NetworkError"

\* C10: a file left short by a failed stream stays, shorter than the
\* resource, and every later call resolving to its name ends
\* AlreadyPresent without writing.
C10_PartialFilePermanent ==
  \A n \in Names :
    partial[n] # Absent =>
      /\ files[<<Dir(1), n>>] # Absent
      /\ files[<<Dir(1), n>>] < partial[n]
      /\ (resp[1].status = 200 /\ resp[1].name = n /\ pc[1] # "check") =>
           /\ pc[1] = "ret"
           /\ outcome[1] = "AlreadyPresent"
           /\ written[1] = 0

C10_Witness ==
  /\ pc[1] = "ret"
  /\ outcome[1] = "AlreadyPresent"
  /\ partial[resp[1].name] # Absent
  /\ files[Dest(1)] > 0
  /\ files[Dest(1)] < partial[resp[1].name]

====
